---- MODULE Spec2Model ----
(***************************************************************************)
(* The hybrid retrieval engine of backend/retriever.py: the dense store    *)
(* (a Chroma collection), the sparse store (SQLite table docs, scored with *)
(* BM25Okapi at query time), Reciprocal Rank Fusion, and the two request   *)
(* handlers of backend/main.py that drive them from the server's thread    *)
(* pool (ingest -> add_texts, ask -> hybrid_search).                       *)
(*                                                                         *)
(* Texts are sequences of one-character strings.  Scores are exact         *)
(* fractions (RRF) or fixed-point integers (BM25, whose logarithms come    *)
(* from a table), not IEEE doubles.                                        *)
(***************************************************************************)
EXTENDS Integers, Sequences, FiniteSets, TLC

VARIABLES
    dense,    \* the Chroma collection: records [id, text, source], insertion order
    sparse,   \* SQLite table docs: records [id, text, source], rowid order
    wpc,      \* where the add_texts call in flight stands: "idle" | "dense_done"
    wcall,    \* the batch of the add_texts call in flight / last made
    wres,     \* how the last add_texts call ended: "none" | "ok" | "raised"
    wnth,     \* which call of a caller that repeats its add_texts call this is
    rpc,      \* where the hybrid_search call in flight stands: "idle" | "dense_read"
    rq,       \* the arguments of the hybrid_search call in flight / last made
    rdense,   \* what search_dense gave that call
    rsparse,  \* what search_bm25 gave that call
    rres,     \* what the call returned
    wbefore,  \* both stores as the add_texts call of a one-call caller found them
    listed,   \* the list_docs call made, if any: its arguments and what it returned
    uploaded, \* the upload request made, if any: its files and what it returns
    col_exists, \* whether the collection self.col names is still in the client
    cleared   \* what the clear_all request returned, if one was made

\* what add_texts and hybrid_search never write
others == <<wbefore, listed, uploaded, col_exists, cleared>>

vars == <<dense, sparse, wpc, wcall, wres, wnth, rpc, rq, rdense, rsparse, rres, others>>

-----------------------------------------------------------------------------
(* Bounds of the model *)

\* size of the pool of document ids (so also of the largest corpus)
MaxIds == 2
\* longest batch handed to one add_texts call
MaxBatch == 2
\* longest ranked list handed to _rrf on its own
MaxList == 2

(* Program constants *)

\* k_rrf as every caller passes it
DefaultKRrf == 60
\* k_dense, k_sparse and top_k as the ask handler passes them
AskK == 6

-----------------------------------------------------------------------------
(* Small helpers *)

Min(a, b) == IF a <= b THEN a ELSE b

Max(a, b) == IF a >= b THEN a ELSE b

Range(s) == {s[i] : i \in 1..Len(s)}

IdsOf(s) == {s[i].id : i \in 1..Len(s)}

\* Python's s[:k], for any integer k
PySlice(s, k) ==
    IF k >= 0 THEN SubSeq(s, 1, Min(k, Len(s)))
    ELSE SubSeq(s, 1, Max(Len(s) + k, 0))

\* sequences over S of length lo..hi
SeqsOf(S, lo, hi) == UNION {[1..n -> S] : n \in lo..hi}

DistinctIds(s) == \A i, j \in 1..Len(s) : s[i].id = s[j].id => i = j

\* what a call gives back: a list, or the exception that ended it
Returned(items) == [err |-> "none", items |-> items]

Raised(e) == [err |-> e, items |-> <<>>]

-----------------------------------------------------------------------------
(* Texts, queries, metadata *)

NoSource == "None"

Sources == {"api", NoSource}

\* "a", "A b", "!" : one term, two terms (one upper case), no term at all
TextA == <<"a">>

TextAb == <<"A", " ", "b">>

TextSep == <<"!">>

Texts == {TextA, TextAb, TextSep}

WordChars == {"a", "b", "A", "B", "_", "0"}

Lower(c) ==
    CASE c = "A" -> "a" [] c = "B" -> "b" [] c = "D" -> "d" [] c = "F" -> "f"
      [] c = "P" -> "p" [] OTHER -> c

\* a query string, or None
Str(chars) == [isNone |-> FALSE, chars |-> chars]

NoneStr == [isNone |-> TRUE, chars |-> <<>>]

Queries == {Str(<<"a">>), Str(<<"B">>), Str(<<"!", " ">>), Str(<<>>), NoneStr}

\* text or ""
OrEmpty(s) == IF s.isNone THEN <<>> ELSE s.chars

RECURSIVE FindAll(_, _, _)
\* _word_re.findall, lowercased: toks are the finished terms, cur the run being read
FindAll(chars, toks, cur) ==
    IF chars = <<>>
    THEN IF cur = <<>> THEN toks ELSE Append(toks, cur)
    ELSE IF Head(chars) \in WordChars
         THEN FindAll(Tail(chars), toks, Append(cur, Lower(Head(chars))))
         ELSE FindAll(Tail(chars), IF cur = <<>> THEN toks ELSE Append(toks, cur), <<>>)

tokenize_lower(chars) == FindAll(chars, <<>>, <<>>)

tokenize(s) == tokenize_lower(OrEmpty(s))

-----------------------------------------------------------------------------
(* Exact fractions with a positive denominator *)

Frac(n, d) == IF d > 0 THEN [num |-> n, den |-> d] ELSE [num |-> -n, den |-> -d]

FracAdd(x, y) == [num |-> x.num * y.den + y.num * x.den, den |-> x.den * y.den]

FracLt(x, y) == x.num * y.den < y.num * x.den

FracEq(x, y) == x.num * y.den = y.num * x.den

(* Stable descending sort of records by their field key, a fraction:       *)
(* sorted(..., key=..., reverse=True) and list.sort(key=..., reverse=True) *)

RECURSIVE InsertDescBeforeEqual(_, _)
\* InsertDesc as an unstable sort would do it: x goes before its equals
InsertDescBeforeEqual(s, x) ==
    IF s = <<>> THEN <<x>>
    ELSE IF ~FracLt(x.key, Head(s).key) THEN <<x>> \o s
         ELSE <<Head(s)>> \o InsertDescBeforeEqual(Tail(s), x)

RECURSIVE InsertDesc(_, _)
\* x goes after every element whose key is not strictly below its own
InsertDesc(s, x) ==
    IF s = <<>> THEN <<x>>
    ELSE IF FracLt(Head(s).key, x.key) THEN <<x>> \o s
         ELSE <<Head(s)>> \o InsertDesc(Tail(s), x)

RECURSIVE SortDescFrom(_, _, _)
SortDescFrom(s, i, acc) ==
    IF i > Len(s) THEN acc
    ELSE SortDescFrom(s, i + 1, InsertDesc(acc, s[i]))

SortDesc(s) == SortDescFrom(s, 1, <<>>)

-----------------------------------------------------------------------------
(* The dense store: self.col *)

RECURSIVE col_add_from(_, _, _)
col_add_from(col, batch, i) ==
    IF i > Len(batch) THEN col
    ELSE col_add_from(IF batch[i].id \in IdsOf(col) THEN col ELSE Append(col, batch[i]),
                      batch, i + 1)

\* col_add as an add that never looks at the ids it holds
col_add_always(col, batch) == col \o batch

\* self.col.add with ids that are distinct within the batch, as Chroma 0.4 and
\* 0.5 do it (count_dense names 0.5.x): a record whose id the collection
\* already holds is left as it is (add is not upsert), the others are appended
col_add(col, batch) == col_add_from(col, batch, 1)

\* the rankings a nearest-neighbour query may give over n stored embeddings
Rankings(n) == {p \in [1..n -> 1..n] : \A i, j \in 1..n : p[i] = p[j] => i = j}

\* search_dense: the k nearest records, nearest first; ranking is the order the
\* embeddings of the query and of the stored texts give
search_dense(col, ranking, k) ==
    IF k <= 0 THEN Raised("TypeError")
    ELSE Returned(PySlice([i \in 1..Len(col) |-> col[ranking[i]]], k))

-----------------------------------------------------------------------------
(* The sparse store: table docs, and BM25Okapi over it *)

RemoveId(table, id) ==
    LET keep == {i \in 1..Len(table) : table[i].id # id}
        Nth(n) == CHOOSE i \in keep : Cardinality({j \in keep : j < i}) = n - 1
    IN  [n \in 1..Cardinality(keep) |-> table[Nth(n)]]

RECURSIVE sqlite_add_from(_, _, _)
sqlite_add_from(table, pairs, i) ==
    IF i > Len(pairs) THEN table
    ELSE sqlite_add_from(Append(RemoveId(table, pairs[i].id), pairs[i]), pairs, i + 1)

\* _sqlite_add: INSERT OR REPLACE row by row, then commit. A row whose id is
\* already there is deleted and the new one gets the next rowid, so it
\* becomes the last row.
sqlite_add(table, pairs) == sqlite_add_from(table, pairs, 1)

\* SELECT id, text, source FROM docs
sqlite_all_docs(table) == table

\* the length of the snippet list_docs cuts a text to
SnippetLen == 500

\* SQLite substr(text, 1, n)
substr(text, n) == SubSeq(text, 1, Min(Len(text), n))

\* ORDER BY rowid without DESC
RowidAsc(table) == table

\* ORDER BY rowid DESC
RowidDesc(table) == [i \in 1..Len(table) |-> table[Len(table) - i + 1]]

\* LIMIT limit OFFSET offset as SQLite reads them: a negative OFFSET is 0, a
\* negative LIMIT is no limit
LimitOffset(rows, limit, offset) ==
    LET from == Max(offset, 0) + 1
        upto == IF limit < 0 THEN Len(rows) ELSE Min(Len(rows), Max(offset, 0) + limit)
    IN  SubSeq(rows, from, upto)

\* list_docs: the row count and one page of rows, newest rowid first
list_docs(table, offset, limit) ==
    LET rows == LimitOffset(RowidDesc(table), limit, offset)
    IN  [total |-> Len(table),
         items |-> [i \in 1..Len(rows) |->
                       [id |-> rows[i].id, source |-> rows[i].source,
                        snippet |-> substr(rows[i].text, SnippetLen)]]]

Count(x, s) == Cardinality({i \in 1..Len(s) : s[i] = x})

RECURSIVE SumSeq(_)
SumSeq(s) == IF s = <<>> THEN 0 ELSE Head(s) + SumSeq(Tail(s))

RECURSIVE SumSet(_, _)
SumSet(S, f) ==
    IF S = {} THEN 0
    ELSE LET x == CHOOSE y \in S : TRUE IN f[x] + SumSet(S \ {x}, f)

\* 1000 * ln(1), ln(3), ln(5), ..., ln(15), rounded
LnOdd == <<0, 1099, 1609, 1946, 2197, 2398, 2565, 2708>>

\* 1000 * ln(x + 0.5), up to the same constant for every x
LnHalf(x) == LnOdd[x + 1]

\* BM25Okapi(corpus_tokens).get_scores(q_tokens) with k1 = 1.5, b = 0.75,
\* epsilon = 0.25: one score per document, here multiplied by 4000 * (number
\* of distinct terms) and rounded down term by term. A corpus without any term
\* has no idf to average: ZeroDivisionError.
bm25_get_scores(corpus_tokens, q_tokens) ==
    LET N == Len(corpus_tokens)
        vocab == UNION {Range(corpus_tokens[i]) : i \in 1..N}
        V == Cardinality(vocab)
        nd == [w \in vocab |-> Cardinality({i \in 1..N : w \in Range(corpus_tokens[i])})]
        idf == [w \in vocab |-> LnHalf(N - nd[w]) - LnHalf(nd[w])]
        idf_sum == SumSet(vocab, idf)
        \* idf * 4V, a negative idf replaced by epsilon * average_idf
        idf4V == [w \in vocab |-> IF idf[w] < 0 THEN idf_sum ELSE 4 * V * idf[w]]
        num_doc == SumSeq([i \in 1..N |-> Len(corpus_tokens[i])])
        \* idf * f * (k1 + 1) / (f + k1 * (1 - b + b * doc_len / avgdl))
        term(i, q) ==
            LET f == Count(q, corpus_tokens[i])
                dl == Len(corpus_tokens[i])
            IN  IF q \notin vocab THEN 0
                ELSE (idf4V[q] * 20 * f * num_doc)
                         \div (8 * f * num_doc + 3 * num_doc + 9 * dl * N)
    IN  IF V = 0 THEN Raised("ZeroDivisionError")
        ELSE Returned([i \in 1..N |->
                 SumSeq([j \in 1..Len(q_tokens) |-> term(i, q_tokens[j])])])

\* search_bm25 without the early return of line 112 on an empty table
search_bm25_unguarded(table, query, k) ==
    LET docs == sqlite_all_docs(table)
        corpus_tokens == [i \in 1..Len(docs) |-> tokenize_lower(docs[i].text)]
        scores == bm25_get_scores(corpus_tokens, tokenize(query))
        zipped == [i \in 1..Len(docs) |->
                      [key |-> Frac(scores.items[i], 1),
                       val |-> [id |-> docs[i].id, text |-> docs[i].text,
                                source |-> docs[i].source, bm25 |-> scores.items[i]]]]
        ranked == PySlice(SortDesc(zipped), k)
    IN  IF scores.err # "none" THEN scores
        ELSE Returned([i \in 1..Len(ranked) |-> ranked[i].val])

\* search_bm25: every stored document ranked by score, best first, cut to k
search_bm25(table, query, k) ==
    LET docs == sqlite_all_docs(table)
        corpus_tokens == [i \in 1..Len(docs) |-> tokenize_lower(docs[i].text)]
        scores == bm25_get_scores(corpus_tokens, tokenize(query))
        zipped == [i \in 1..Len(docs) |->
                      [key |-> Frac(scores.items[i], 1),
                       val |-> [id |-> docs[i].id, text |-> docs[i].text,
                                source |-> docs[i].source, bm25 |-> scores.items[i]]]]
        ranked == PySlice(SortDesc(zipped), k)
    IN  IF docs = <<>> THEN Returned(<<>>)
        ELSE IF scores.err # "none" THEN scores
        ELSE Returned([i \in 1..Len(ranked) |-> ranked[i].val])

-----------------------------------------------------------------------------
(* Reciprocal Rank Fusion *)

\* RrfTerm with the ranks counted from 0
RrfTermZeroBased(k, rank) == Frac(1, k + rank - 1)

\* 1.0 / (k + rank)
RrfTerm(k, rank) == Frac(1, k + rank)

\* RrfAccumulate as an assignment
RrfAssign(score, k, rank) == RrfTerm(k, rank)

\* fused[d["id"]]["_rrf"] += 1.0 / (k + rank)
RrfAccumulate(score, k, rank) == FracAdd(score, RrfTerm(k, rank))

RECURSIVE rrf_loop(_, _, _, _, _)
\* one of the two loops of _rrf, from position rank on; fused is the dict so
\* far, in insertion order
rrf_loop(fused, list, rank, k, isDense) ==
    IF rank > Len(list) THEN fused
    ELSE LET d == list[rank]
             fresh == [id |-> d.id, doc |-> d, rrf |-> Frac(0, 1),
                       dense_rank |-> IF isDense THEN rank ELSE 0,
                       sparse_rank |-> IF isDense THEN 0 ELSE rank]
             withD == IF d.id \in IdsOf(fused) THEN fused ELSE Append(fused, fresh)
             added == [i \in 1..Len(withD) |->
                          IF withD[i].id = d.id
                          THEN [withD[i] EXCEPT !.rrf = RrfAccumulate(@, k, rank)]
                          ELSE withD[i]]
         IN  rrf_loop(added, list, rank + 1, k, isDense)

\* _rrf: ZeroDivisionError when some k + rank is 0
rrf(dense_list, sparse_list, k) ==
    LET fused == rrf_loop(rrf_loop(<<>>, dense_list, 1, k, TRUE), sparse_list, 1, k, FALSE)
        merged == SortDesc([i \in 1..Len(fused) |-> [key |-> fused[i].rrf, val |-> fused[i]]])
    IN  IF \E rank \in 1..Max(Len(dense_list), Len(sparse_list)) : k + rank = 0
        THEN Raised("ZeroDivisionError")
        ELSE Returned([i \in 1..Len(merged) |-> merged[i].val])

\* Truncate that keeps one entry more
TruncateOneMore(fused, top_k) == PySlice(fused, top_k + 1)

\* fused[:top_k]
Truncate(fused, top_k) == PySlice(fused, top_k)

\* hybrid_search once both lists are in hand: fuse and cut
fuse_and_cut(d, s, k_rrf, top_k) ==
    IF d.err # "none" THEN d
    ELSE IF s.err # "none" THEN s
    ELSE LET fused == rrf(d.items, s.items, k_rrf)
         IN  IF fused.err # "none" THEN fused
             ELSE Returned(Truncate(fused.items, top_k))

\* hybrid_search with nothing running beside it
hybrid_search(col, table, ranking, query, k_dense, k_sparse, k_rrf, top_k) ==
    fuse_and_cut(search_dense(col, ranking, k_dense),
                 search_bm25(table, query, k_sparse), k_rrf, top_k)

-----------------------------------------------------------------------------
(* The inputs *)

Ids == 1..MaxIds

Doc(id, text, source) == [id |-> id, text |-> text, source |-> source]

\* the documents handed to add_texts: "a" from the api, "!" without metadata
IngestDocs == {Doc(id, TextA, "api") : id \in Ids} \cup {Doc(id, TextSep, NoSource) : id \in Ids}

\* texts[i], metadatas[i].get("source") and ids[i] of one add_texts call, zipped
Batches == SeqsOf(IngestDocs, 0, MaxBatch)

\* the documents of the corpora searched
CorpusDocs == {Doc(id, text, "api") : id \in Ids, text \in Texts}

\* the corpora that ingestion under distinct ids builds, the same in both stores
Corpora == {c \in SeqsOf(CorpusDocs, 0, MaxIds) : DistinctIds(c)}

\* ids = None: one uuid4 per text, never one that is in use
Uuid4Ok(batch) ==
    /\ DistinctIds(batch)
    /\ IdsOf(batch) \cap (IdsOf(dense) \cup IdsOf(sparse)) = {}

Query(q, kd, ks, kr, tk) ==
    [query |-> q, k_dense |-> kd, k_sparse |-> ks, k_rrf |-> kr, top_k |-> tk]

NoQuery == Query(NoneStr, 0, 0, 0, 0)

\* what the ask handler asks for
AskParams == {Query(Str(<<"a">>), AskK, AskK, DefaultKRrf, AskK)}

Big == MaxIds + 1

\* what a caller of hybrid_search may ask for
SearchParams ==
    {Query(q, kd, ks, kr, tk) :
        q \in Queries, kd \in {0, 1, Big}, ks \in {-1, 1, Big},
        kr \in {-1, DefaultKRrf}, tk \in {-1, 0, 1, Big}}

-----------------------------------------------------------------------------
(* add_texts, in the two steps another thread can come between *)

WriterIdle == wpc = "idle"

\* lines 76-85 for one batch: the defaults, the embeddings and the dense write
add_texts_dense(batch) ==
    /\ wcall' = batch
    /\ IF batch = <<>>
       THEN \* return 0
            /\ wres' = "ok"
            /\ UNCHANGED <<dense, wpc>>
       ELSE IF ~DistinctIds(batch)
       THEN \* DuplicateIDError out of col.add
            /\ wres' = "raised"
            /\ UNCHANGED <<dense, wpc>>
       ELSE IF ~col_exists
       THEN \* col.add on a collection that client.reset() has deleted
            /\ wres' = "raised"
            /\ UNCHANGED <<dense, wpc>>
       ELSE /\ dense' = col_add(dense, batch)
            /\ wpc' = "dense_done"
            /\ wres' = "none"
    /\ UNCHANGED <<sparse, rpc, rq, rdense, rsparse, rres>>

\* a request reaches add_texts; byUuid says the caller gave no ids
AddTextsDense ==
    /\ WriterIdle
    /\ \E batch \in Batches, byUuid \in BOOLEAN :
        /\ byUuid => Uuid4Ok(batch)
        /\ add_texts_dense(batch)
    /\ UNCHANGED wnth
    /\ UNCHANGED others

\* encoder.encode or col.add raises: nothing was written
AddTextsRaiseEarly ==
    /\ WriterIdle
    /\ \E batch \in Batches \ {<<>>} :
        wcall' = batch
    /\ wres' = "raised"
    /\ UNCHANGED <<dense, sparse, wpc, wnth, rpc, rq, rdense, rsparse, rres>>
    /\ UNCHANGED others

\* lines 88-90: the sparse write and the return
AddTextsSparse ==
    /\ wpc = "dense_done"
    /\ sparse' = sqlite_add(sparse, wcall)
    /\ wpc' = "idle"
    /\ wres' = "ok"
    /\ UNCHANGED <<dense, wcall, wnth, rpc, rq, rdense, rsparse, rres>>
    /\ UNCHANGED others

\* _sqlite_add raises: the dense write stays
AddTextsSparseRaise ==
    /\ wpc = "dense_done"
    /\ wpc' = "idle"
    /\ wres' = "raised"
    /\ UNCHANGED <<dense, sparse, wcall, wnth, rpc, rq, rdense, rsparse, rres>>
    /\ UNCHANGED others

-----------------------------------------------------------------------------
(* hybrid_search, in the two steps another thread can come between *)

\* line 136 for arguments out of P: the dense read; a raise ends the call
hybrid_dense(P) ==
    /\ \E q \in P, ranking \in Rankings(Len(dense)) :
        LET d == IF col_exists THEN search_dense(dense, ranking, q.k_dense)
                 ELSE \* col.query on a collection that client.reset() has deleted
                      Raised("InvalidCollectionException")
        IN  /\ rq' = q
            /\ rdense' = d
            /\ rsparse' = Returned(<<>>)
            /\ rres' = IF d.err = "none" THEN Returned(<<>>) ELSE d
            /\ rpc' = IF d.err = "none" THEN "dense_read" ELSE "returned"
    /\ UNCHANGED <<dense, sparse, wpc, wcall, wres, wnth>>
    /\ UNCHANGED others

\* lines 137-139: the sparse read, the fusion and the cut
HybridSparse ==
    /\ rpc = "dense_read"
    /\ rsparse' = search_bm25(sparse, rq.query, rq.k_sparse)
    /\ rres' = fuse_and_cut(rdense, rsparse', rq.k_rrf, rq.top_k)
    /\ rpc' = "returned"
    /\ UNCHANGED <<dense, sparse, wpc, wcall, wres, wnth, rq, rdense>>
    /\ UNCHANGED others

\* an ask request reaches hybrid_search
Ask ==
    /\ rpc # "dense_read"
    /\ hybrid_dense(AskParams)

-----------------------------------------------------------------------------
(* The server: ingestion and ask requests on the thread pool *)

NoSnapshot == [dense |-> <<>>, sparse |-> <<>>]

NoListing == [made |-> FALSE, offset |-> 0, limit |-> 0, total |-> 0, items |-> <<>>]

NoUpload == [made |-> FALSE, files |-> <<>>, metas |-> <<>>, ingested |-> 0]

InitOthers ==
    /\ wbefore = NoSnapshot
    /\ listed = NoListing
    /\ uploaded = NoUpload
    /\ col_exists = TRUE
    /\ cleared = "none"

Init ==
    /\ dense = <<>>
    /\ sparse = <<>>
    /\ wpc = "idle"
    /\ wcall = <<>>
    /\ wres = "none"
    /\ wnth = 0
    /\ rpc = "idle"
    /\ rq = NoQuery
    /\ rdense = Returned(<<>>)
    /\ rsparse = Returned(<<>>)
    /\ rres = Returned(<<>>)
    /\ InitOthers

Next ==
    \/ AddTextsDense
    \/ AddTextsRaiseEarly
    \/ AddTextsSparse
    \/ AddTextsSparseRaise
    \/ Ask
    \/ HybridSparse

Spec == Init /\ [][Next]_vars

(* The same server when no call raises *)

NextConcurrent ==
    \/ AddTextsDense
    \/ AddTextsSparse
    \/ Ask
    \/ HybridSparse

SpecConcurrent == Init /\ [][NextConcurrent]_vars

-----------------------------------------------------------------------------
(* One caller that makes an add_texts call and then the same call again, on *)
(* any corpus                                                               *)

InitCorpus ==
    /\ \E c \in Corpora : dense = c /\ sparse = c
    /\ wpc = "idle"
    /\ wcall = <<>>
    /\ wres = "none"
    /\ wnth = 0
    /\ rpc = "idle"
    /\ rq = NoQuery
    /\ rdense = Returned(<<>>)
    /\ rsparse = Returned(<<>>)
    /\ rres = Returned(<<>>)
    /\ InitOthers

TwiceFirst ==
    /\ WriterIdle
    /\ wnth = 0
    /\ \E batch \in Batches : add_texts_dense(batch)
    /\ wnth' = 1
    /\ UNCHANGED others

TwiceAgain ==
    /\ WriterIdle
    /\ wnth = 1
    /\ wres = "ok"
    /\ add_texts_dense(wcall)
    /\ wnth' = 2
    /\ UNCHANGED others

NextTwice ==
    \/ TwiceFirst
    \/ TwiceAgain
    \/ AddTextsSparse

SpecTwice == InitCorpus /\ [][NextTwice]_vars

-----------------------------------------------------------------------------
(* A caller of hybrid_search alone, on any corpus, with any arguments *)

Search ==
    /\ rpc = "idle"
    /\ hybrid_dense(SearchParams)

NextSearch ==
    \/ Search
    \/ HybridSparse

SpecSearch == InitCorpus /\ [][NextSearch]_vars

-----------------------------------------------------------------------------
(* A caller of _rrf alone, with any two ranked lists *)

RrfIds == 1..(MaxList + 1)

RrfDenseLists ==
    {l \in SeqsOf({Doc(id, TextA, "api") : id \in RrfIds}, 0, MaxList) : DistinctIds(l)}

RrfSparseLists ==
    {l \in SeqsOf({[id |-> id, text |-> TextAb, source |-> "api", bm25 |-> 0] : id \in RrfIds},
                  0, MaxList) : DistinctIds(l)}

\* k + rank is negative for every rank, 0 for rank 1, positive
RrfKs == {-7, -1, 0, 1, DefaultKRrf}

InitRrf ==
    /\ dense = <<>>
    /\ sparse = <<>>
    /\ wpc = "idle"
    /\ wcall = <<>>
    /\ wres = "none"
    /\ wnth = 0
    /\ rpc = "idle"
    /\ rq = NoQuery
    /\ \E a \in RrfDenseLists : rdense = Returned(a)
    /\ \E b \in RrfSparseLists : rsparse = Returned(b)
    /\ rres = Returned(<<>>)
    /\ InitOthers

RrfCall ==
    /\ rpc = "idle"
    /\ \E k \in RrfKs :
        /\ rq' = Query(NoneStr, 0, 0, k, 0)
        /\ rres' = rrf(rdense.items, rsparse.items, k)
    /\ rpc' = "returned"
    /\ UNCHANGED <<dense, sparse, wpc, wcall, wres, wnth, rdense, rsparse>>
    /\ UNCHANGED others

NextRrf == RrfCall

SpecRrf == InitRrf /\ [][NextRrf]_vars

-----------------------------------------------------------------------------
(* One caller that makes one add_texts call, which any of its steps may end *)
(* by raising, on any corpus                                               *)

Snapshot == [dense |-> dense, sparse |-> sparse]

\* the call begins and gets as far as the dense write
BatchCall ==
    /\ WriterIdle
    /\ wnth = 0
    /\ \E batch \in Batches : add_texts_dense(batch)
    /\ wnth' = 1
    /\ wbefore' = Snapshot
    /\ UNCHANGED <<listed, uploaded, col_exists, cleared>>

\* the call begins and line 84 or line 85 raises: the encoder fails, or Chroma
\* refuses the batch (ids or metadatas not as long as texts) or fails to write
BatchRaiseEarly ==
    /\ WriterIdle
    /\ wnth = 0
    /\ \E batch \in Batches \ {<<>>} :
        wcall' = batch
    /\ wres' = "raised"
    /\ wnth' = 1
    /\ wbefore' = Snapshot
    /\ UNCHANGED <<dense, sparse, wpc, rpc, rq, rdense, rsparse, rres, listed, uploaded,
                   col_exists, cleared>>

NextBatch ==
    \/ BatchCall
    \/ BatchRaiseEarly
    \/ AddTextsSparse
    \/ AddTextsSparseRaise

SpecBatch == InitCorpus /\ [][NextBatch]_vars

-----------------------------------------------------------------------------
(* One caller that makes one add_texts call and then lists the documents, on *)
(* any corpus                                                                *)

\* what a caller of list_docs may ask for
ListOffsets == {-1, 0, 1, Big}

ListLimits == {-1, 0, 1, Big}

ListDocs ==
    /\ WriterIdle
    /\ wnth = 1
    /\ ~listed.made
    /\ \E offset \in ListOffsets, limit \in ListLimits :
        LET res == list_docs(sparse, offset, limit)
        IN  listed' = [made |-> TRUE, offset |-> offset, limit |-> limit,
                       total |-> res.total, items |-> res.items]
    /\ UNCHANGED <<dense, sparse, wpc, wcall, wres, wnth, rpc, rq, rdense, rsparse, rres,
                   wbefore, uploaded, col_exists, cleared>>

NextDocs ==
    \/ BatchCall
    \/ AddTextsSparse
    \/ ListDocs

SpecDocs == InitCorpus /\ [][NextDocs]_vars

-----------------------------------------------------------------------------
(* The upload handler: one request with a batch of files, on empty stores *)

\* a file of the request: its filename ("" when the client sent none), the
\* text that decoding or extraction gives, and whether reading or parsing it
\* raises
File(filename, text, fails) == [filename |-> filename, text |-> text, fails |-> fails]

NameTxt == <<"a", ".", "t", "x", "t">>

NamePdf == <<"b", ".", "v", "2", ".", "P", "D", "F">>

NameExe == <<"c", ".", "e", "x", "e">>

Files ==
    {File(name, text, fails) :
        name \in {NameTxt, NamePdf, NameExe, <<>>}, text \in {TextA, <<>>},
        fails \in BOOLEAN}

FileBatches == SeqsOf(Files, 0, MaxBatch)

\* f.filename or "file"
NameOf(f) == IF f.filename = <<>> THEN <<"f", "i", "l", "e">> ELSE f.filename

RECURSIVE SplitLast(_, _)
\* name.split(".")[-1]: cur is the piece being read
SplitLast(chars, cur) ==
    IF chars = <<>> THEN cur
    ELSE IF Head(chars) = "." THEN SplitLast(Tail(chars), <<>>)
         ELSE SplitLast(Tail(chars), Append(cur, Head(chars)))

\* (name.split(".")[-1] or "").lower()
ExtOf(name) ==
    LET last == SplitLast(name, <<>>)
    IN  [i \in 1..Len(last) |-> Lower(last[i])]

SupportedExts ==
    {<<"t", "x", "t">>, <<"m", "d">>, <<"c", "s", "v">>, <<"l", "o", "g">>,
     <<"p", "d", "f">>, <<"d", "o", "c", "x">>}

Meta(name, skipped, error) == [source |-> name, skipped |-> skipped, error |-> error]

RECURSIVE upload_loop(_, _, _, _)
\* the loop over the files: texts of the files that were read, and one meta
\* for every file
upload_loop(files, i, texts, metas) ==
    IF i > Len(files) THEN [texts |-> texts, metas |-> metas]
    ELSE LET f == files[i]
             name == NameOf(f)
         IN  IF f.fails
             THEN upload_loop(files, i + 1, texts, Append(metas, Meta(name, FALSE, TRUE)))
             ELSE IF ExtOf(name) \in SupportedExts
             THEN upload_loop(files, i + 1, Append(texts, f.text),
                              Append(metas, Meta(name, FALSE, FALSE)))
             ELSE upload_loop(files, i + 1, texts, Append(metas, Meta(name, TRUE, FALSE)))

\* [(t, m) for t, m in zip(texts, metas) if t and not m.get("skipped")]
upload_pairs(texts, metas) ==
    LET zipped == [i \in 1..Min(Len(texts), Len(metas)) |->
                      [text |-> texts[i], meta |-> metas[i]]]
    IN  SelectSeq(zipped, LAMBDA p : p.text # <<>> /\ ~p.meta.skipped)

\* the request, as far as the dense write of its add_texts call; ids are the
\* uuid4s add_texts draws
Upload ==
    /\ WriterIdle
    /\ ~uploaded.made
    /\ \E files \in FileBatches :
        LET read == upload_loop(files, 1, <<>>, <<>>)
            pairs == upload_pairs(read.texts, read.metas)
        IN  /\ uploaded' = [made |-> TRUE, files |-> files, metas |-> read.metas,
                            ingested |-> Len(pairs)]
            /\ IF pairs = <<>>
               THEN UNCHANGED <<dense, sparse, wpc, wcall, wres, rpc, rq, rdense, rsparse, rres>>
               ELSE \E ids \in [1..Len(pairs) -> Ids] :
                       LET batch == [i \in 1..Len(pairs) |->
                                        Doc(ids[i], pairs[i].text, pairs[i].meta.source)]
                       IN  /\ Uuid4Ok(batch)
                           /\ add_texts_dense(batch)
    /\ UNCHANGED <<wnth, wbefore, listed, col_exists, cleared>>

NextUpload ==
    \/ Upload
    \/ AddTextsSparse

SpecUpload == Init /\ [][NextUpload]_vars

-----------------------------------------------------------------------------
(* One caller that resets the corpus, then ingests a batch, then searches, *)
(* on any corpus                                                           *)

\* clear_all: client.reset(), whose exception is logged and dropped, and then
\* the two DELETEs, whose exception makes the answer cleared = False.
\* reset() deletes every collection of the client, the one self.col names
\* among them, and nothing creates that collection again.
ClearAll ==
    /\ WriterIdle
    /\ wnth = 0
    /\ cleared = "none"
    /\ \E resetOk \in BOOLEAN, sqliteOk \in BOOLEAN :
        /\ dense' = IF resetOk THEN <<>> ELSE dense
        /\ col_exists' = IF resetOk THEN FALSE ELSE col_exists
        /\ sparse' = IF sqliteOk THEN <<>> ELSE sparse
        /\ cleared' = IF sqliteOk THEN "true" ELSE "false"
    /\ UNCHANGED <<wpc, wcall, wres, wnth, rpc, rq, rdense, rsparse, rres,
                   wbefore, listed, uploaded>>

\* the hybrid_search call of the ask handler, made when the add_texts call
\* has ended
AskAfter ==
    /\ WriterIdle
    /\ wnth = 1
    /\ rpc = "idle"
    /\ hybrid_dense(AskParams)

NextClear ==
    \/ ClearAll
    \/ BatchCall
    \/ AddTextsSparse
    \/ AskAfter
    \/ HybridSparse

SpecClear == InitCorpus /\ [][NextClear]_vars

-----------------------------------------------------------------------------
(* What the claims say *)

\* the text and the source store holds for id are those of doc e, and it holds e.id
Holds(store, e) ==
    /\ e.id \in IdsOf(store)
    /\ \A i \in 1..Len(store) :
          store[i].id = e.id => store[i].text = e.text /\ store[i].source = e.source

Copies(store, id) == Cardinality({i \in 1..Len(store) : store[i].id = id})

\* C1: whenever no add_texts call is in flight, the dense collection and the
\* docs table hold the same ids, and for each id the same text.
C1_StoresAgreeAtRest ==
    WriterIdle =>
        /\ IdsOf(dense) = IdsOf(sparse)
        /\ \A i \in 1..Len(dense), j \in 1..Len(sparse) :
              dense[i].id = sparse[j].id => dense[i].text = sparse[j].text

\* C2: an add_texts call made a second time with the same ids, texts and
\* metadata changes neither store at any of its steps, and when it has returned
\* each of its ids is held exactly once by the collection and exactly once by
\* the table.
C2_UpsertIdempotent ==
    /\ [][wnth' = 2 => (dense' = dense /\ sparse' = sparse)]_vars
    /\ [](wnth = 2 /\ WriterIdle /\ wres = "ok" =>
            \A i \in 1..Len(wcall) :
                Copies(dense, wcall[i].id) = 1 /\ Copies(sparse, wcall[i].id) = 1)

\* C2's case: the second call of a batch of two documents has returned
C2_Witness ==
    /\ wnth = 2
    /\ WriterIdle
    /\ wres = "ok"
    /\ Len(wcall) = 2
    /\ \E i \in 1..Len(dense) : dense[i].id = wcall[1].id /\ dense[i].text # wcall[1].text

\* C3: when an add_texts call has returned, both stores hold, for each id of
\* its batch, the text and the source of that call, whatever they held for the
\* id before.
C3_OverwriteOnStoredId ==
    (WriterIdle /\ wres = "ok") =>
        \A i \in 1..Len(wcall) : Holds(dense, wcall[i]) /\ Holds(sparse, wcall[i])

\* the ids a search gave back, none when it raised
Seen(res) == IF res.err = "none" THEN IdsOf(res.items) ELSE {}

\* C4: when an add_texts call has returned, a search_dense, a search_bm25 and
\* a hybrid_search made now, with the ask handler's k (no smaller than the
\* corpus), each give back every id of its batch, for every query and every
\* ranking of the embeddings.
C4_ReadAfterWrite ==
    (WriterIdle /\ wres = "ok") =>
        \A i \in 1..Len(wcall), q \in Queries, ranking \in Rankings(Len(dense)) :
            /\ wcall[i].id \in Seen(search_dense(dense, ranking, AskK))
            /\ wcall[i].id \in Seen(search_bm25(sparse, q, AskK))
            /\ wcall[i].id \in Seen(hybrid_search(dense, sparse, ranking, q,
                                                  AskK, AskK, DefaultKRrf, AskK))

\* C5: a hybrid_search that ran beside add_texts calls (none of which raised)
\* and got both its lists, each long enough for the whole corpus, has the same
\* ids in its dense list and in its sparse list.
C5_NoTornRead ==
    (rpc = "returned" /\ rdense.err = "none" /\ rsparse.err = "none") =>
        IdsOf(rdense.items) = IdsOf(rsparse.items)

\* the rank of id in list, 0 when it is not there
RankIn(list, id) ==
    IF id \in IdsOf(list) THEN CHOOSE r \in 1..Len(list) : list[r].id = id ELSE 0

\* what list gives id under RRF: 1/(k + rank), or 0
Contribution(list, id, k) ==
    IF RankIn(list, id) = 0 THEN Frac(0, 1) ELSE Frac(1, k + RankIn(list, id))

RrfReturned == rpc = "returned" /\ rres.err = "none"

\* C6: _rrf returns for every k >= 0, and whenever it returns its result has
\* exactly one entry per id of the union of the two lists, whose score is the
\* sum of 1/(k + rank) over the lists that hold the id (0 from the other).
C6_RrfScores ==
    /\ (rpc = "returned" /\ rq.k_rrf >= 0) => rres.err = "none"
    /\ RrfReturned =>
        /\ IdsOf(rres.items) = IdsOf(rdense.items) \cup IdsOf(rsparse.items)
        /\ DistinctIds(rres.items)
        /\ \A i \in 1..Len(rres.items) :
              FracEq(rres.items[i].rrf,
                     FracAdd(Contribution(rdense.items, rres.items[i].id, rq.k_rrf),
                             Contribution(rsparse.items, rres.items[i].id, rq.k_rrf)))

\* C6's case: _rrf has returned for lists that share one id, at different
\* ranks, and each hold an id of their own
C6_Witness ==
    /\ RrfReturned
    /\ \E id \in RrfIds :
          /\ RankIn(rdense.items, id) > 0
          /\ RankIn(rsparse.items, id) > 0
          /\ RankIn(rdense.items, id) # RankIn(rsparse.items, id)
    /\ IdsOf(rdense.items) \ IdsOf(rsparse.items) # {}
    /\ IdsOf(rsparse.items) \ IdsOf(rdense.items) # {}

\* the (id, fused score) pairs of x are among those of y
PairsWithin(x, y) ==
    \A i \in 1..Len(x) : \E j \in 1..Len(y) :
        x[i].id = y[j].id /\ FracEq(x[i].rrf, y[j].rrf)

\* C7: whenever _rrf(A, B, k) returns, _rrf(B, A, k) returns too and gives the
\* same set of (id, fused score) pairs.
C7_RrfSymmetric ==
    RrfReturned =>
        LET swapped == rrf(rsparse.items, rdense.items, rq.k_rrf)
        IN  /\ swapped.err = "none"
            /\ PairsWithin(rres.items, swapped.items)
            /\ PairsWithin(swapped.items, rres.items)

\* C7's case: _rrf has returned for two different lists that share an id at
\* different ranks
C7_Witness ==
    /\ RrfReturned
    /\ Len(rdense.items) # Len(rsparse.items)
    /\ \E id \in RrfIds :
          /\ RankIn(rdense.items, id) > 0
          /\ RankIn(rsparse.items, id) > RankIn(rdense.items, id)

\* the hybrid_search call got as far as its sparse read, which returned
SparseReturned == rpc = "returned" /\ rdense.err = "none" /\ rsparse.err = "none"

Matches(text, query) == Range(tokenize_lower(text)) \cap Range(tokenize(query)) # {}

\* C8: every document search_bm25 returns holds at least one term of the
\* query.
C8_SparseNeverPads ==
    SparseReturned =>
        \A i \in 1..Len(rsparse.items) : Matches(rsparse.items[i].text, rq.query)

\* C9: for a query without any term, search_bm25 returns the empty list on
\* every corpus, and hybrid_search returns the fusion of the dense list alone.
C9_EmptyQuerySparseEmpty ==
    (rpc = "returned" /\ rdense.err = "none" /\ tokenize(rq.query) = <<>>) =>
        /\ rsparse = Returned(<<>>)
        /\ rres = fuse_and_cut(rdense, Returned(<<>>), rq.k_rrf, rq.top_k)

HybridReturned == rpc = "returned" /\ rres.err = "none"

\* C10: whenever hybrid_search returns and top_k >= 0, it returns at most top_k
\* results: the first min(top_k, n) of the n entries of the fused ranking of
\* its two lists, in the same order.
C10_Truncation ==
    (HybridReturned /\ rq.top_k >= 0) =>
        LET fused == rrf(rdense.items, rsparse.items, rq.k_rrf).items
        IN  /\ Len(rres.items) <= rq.top_k
            /\ Len(rres.items) = Min(rq.top_k, Len(fused))
            /\ \A i \in 1..Len(rres.items) : rres.items[i] = fused[i]

\* C10's case: hybrid_search has returned one result out of two lists that are
\* both longer than top_k
C10_Witness ==
    /\ HybridReturned
    /\ rq.top_k = 1
    /\ Len(rdense.items) > 1
    /\ Len(rsparse.items) > 1
    /\ Len(rres.items) = 1

-----------------------------------------------------------------------------
(* C11: the empty corpus *)

EmptyCorpus == dense = <<>> /\ sparse = <<>>

\* C11: when both stores hold no document, search_dense (k_dense >= 1),
\* search_bm25 and hybrid_search each return the empty list and none of them
\* raises, for every query and every other argument; so does _rrf on two
\* empty lists for every k.
C11_EmptyCorpusEmptyResults ==
    /\ (EmptyCorpus /\ rpc = "dense_read") => rdense = Returned(<<>>)
    /\ (EmptyCorpus /\ rpc = "returned" /\ rq.k_dense >= 1) =>
           /\ rdense = Returned(<<>>)
           /\ rsparse = Returned(<<>>)
           /\ rres = Returned(<<>>)
           /\ rrf(rdense.items, rsparse.items, rq.k_rrf) = Returned(<<>>)

\* C11's case: hybrid_search has run to its end over two empty stores, with a
\* query that has a term and a k_rrf that makes k + rank = 0 for rank 1
C11_Witness ==
    /\ EmptyCorpus
    /\ rpc = "returned"
    /\ rq.k_dense >= 1
    /\ tokenize(rq.query) # <<>>
    /\ rq.k_rrf = -1
    /\ rres = Returned(<<>>)

-----------------------------------------------------------------------------
(* C12: a batch that fails *)

\* C12: whenever add_texts raises, the dense collection and the docs table are
\* both as they were before the call: no document of the failed batch is
\* stored in one of them only, and what was stored before is untouched.
C12_AllOrNothing ==
    (WriterIdle /\ wnth = 1 /\ wres = "raised") =>
        /\ dense = wbefore.dense
        /\ sparse = wbefore.sparse

-----------------------------------------------------------------------------
(* C13: the pages of list_docs *)

\* what the caller's add_texts call inserted or re-ingested, in that order
Inserted == IF wres = "ok" THEN wcall ELSE <<>>

\* the documents in insertion order: those the call found and did not
\* re-ingest, in the order it found them, and then those it wrote
InsertionOrder ==
    SelectSeq(wbefore.sparse, LAMBDA d : d.id \notin IdsOf(Inserted)) \o Inserted

\* C13: for offset >= 0 and limit >= 0, list_docs returns as total the number
\* of distinct stored ids, and as items at most limit documents: those that
\* come after the first offset documents when the documents are taken in
\* reverse insertion order, a re-ingested document counting as inserted anew;
\* beyond the end of the corpus the page is empty.
C13_ListDocsPages ==
    (listed.made /\ listed.offset >= 0 /\ listed.limit >= 0) =>
        LET n == Len(InsertionOrder)
            NewestFirst(i) == InsertionOrder[n - i + 1]
        IN  /\ listed.total = Cardinality(IdsOf(sparse))
            /\ listed.total = n
            /\ Len(listed.items) <= listed.limit
            /\ Len(listed.items) = Max(0, Min(listed.limit, n - listed.offset))
            /\ \A i \in 1..Len(listed.items) :
                  /\ listed.items[i].id = NewestFirst(listed.offset + i).id
                  /\ listed.items[i].source = NewestFirst(listed.offset + i).source
                  /\ listed.items[i].snippet = NewestFirst(listed.offset + i).text
            /\ listed.offset >= n => listed.items = <<>>

\* C13's case: the call re-ingested the older of two stored documents, and
\* the second page of one item holds the other one
C13_Witness ==
    /\ listed.made
    /\ listed.offset = 1
    /\ listed.limit = 1
    /\ wres = "ok"
    /\ Len(wbefore.sparse) = 2
    /\ Len(wcall) = 1
    /\ wcall[1].id = wbefore.sparse[1].id
    /\ Len(listed.items) = 1
    /\ listed.items[1].id = wbefore.sparse[2].id

-----------------------------------------------------------------------------
(* C14: the order of _rrf among equal scores *)

\* where id first appears when the dense list is scanned and then the sparse
\* list
FirstSeen(id) ==
    IF id \in IdsOf(rdense.items) THEN RankIn(rdense.items, id)
    ELSE Len(rdense.items) + RankIn(rsparse.items, id)

\* C14: whenever _rrf returns, its output is in order of non-increasing fused
\* score, and of two items with equal fused score the one that appears first,
\* scanning the dense list and then the sparse list, comes first; the output
\* order is so fixed by the two input lists and k.
C14_StableTieOrder ==
    RrfReturned =>
        \A i, j \in 1..Len(rres.items) :
            i < j =>
                /\ ~FracLt(rres.items[i].rrf, rres.items[j].rrf)
                /\ FracEq(rres.items[i].rrf, rres.items[j].rrf) =>
                       FirstSeen(rres.items[i].id) < FirstSeen(rres.items[j].id)

\* C14's case: _rrf has returned two items of equal fused score, one out of
\* each list, and a third item of another score
C14_Witness ==
    /\ RrfReturned
    /\ Len(rres.items) >= 3
    /\ \E i, j, l \in 1..Len(rres.items) :
          /\ i < j
          /\ FracEq(rres.items[i].rrf, rres.items[j].rrf)
          /\ rres.items[i].id \in IdsOf(rdense.items) \ IdsOf(rsparse.items)
          /\ rres.items[j].id \in IdsOf(rsparse.items) \ IdsOf(rdense.items)
          /\ ~FracEq(rres.items[l].rrf, rres.items[i].rrf)

-----------------------------------------------------------------------------
(* C15: what upload ingests *)

UploadReturned == uploaded.made /\ WriterIdle /\ (uploaded.ingested = 0 \/ wres = "ok")

\* a file with a supported extension whose text was extracted and is not empty
Ingestible(f) == ~f.fails /\ ExtOf(NameOf(f)) \in SupportedExts /\ f.text # <<>>

\* how many documents store holds with the text of f under f's filename
StoredFor(store, f) ==
    Cardinality({i \in 1..Len(store) :
                    store[i].text = f.text /\ store[i].source = NameOf(f)})

\* C15: when upload returns, every file of the request with a supported
\* extension and a non-empty extracted text is stored once, in both stores,
\* with its own filename as source, whatever other files the request holds and
\* in whatever order; and ingested is the number of those files.
C15_UploadIngestsEachFile ==
    UploadReturned =>
        LET files == uploaded.files
            good == {i \in 1..Len(files) : Ingestible(files[i])}
            Same(i) == {j \in good : files[j] = files[i]}
        IN  /\ \A i \in good :
                  /\ StoredFor(dense, files[i]) = Cardinality(Same(i))
                  /\ StoredFor(sparse, files[i]) = Cardinality(Same(i))
            /\ uploaded.ingested = Cardinality(good)

-----------------------------------------------------------------------------
(* C16: the full-corpus reset *)

\* C16: whenever clear_all returns cleared = true, the dense collection and
\* the docs table are both empty; an add_texts call made after it returns and
\* leaves its documents in both stores, and a hybrid_search made after that
\* returns and finds the new document in the dense list and in the sparse
\* list.
C16_ResetKeepsIndexesConsistent ==
    /\ (cleared = "true" /\ wnth = 0) => (dense = <<>> /\ sparse = <<>>)
    /\ (cleared = "true" /\ wnth = 1 /\ WriterIdle /\ wcall # <<>> /\ DistinctIds(wcall)) =>
           /\ wres = "ok"
           /\ \A i \in 1..Len(wcall) : Holds(dense, wcall[i]) /\ Holds(sparse, wcall[i])
    /\ (cleared = "true" /\ wnth = 1 /\ rpc = "returned" /\ Len(wcall) = 1
           /\ wcall[1].text = TextA) =>
           /\ rres.err = "none"
           /\ wcall[1].id \in Seen(rdense)
           /\ wcall[1].id \in Seen(rsparse)

====
